---- MODULE Spec2Model ----
(***************************************************************************)
(* Model of the filter-to-pipeline compiler of rust-db-manager             *)
(* (src/commons/utils.rs): FilterElement::as_mongo_agregate, the recursive *)
(* walk FilterElement::_as_mongo_agregate over a filter tree with the      *)
(* QueryItems registry threaded through it, and the final rendering and    *)
(* parsing of the pipeline text.                                           *)
(*                                                                         *)
(* Text is modelled as TLA+ strings, built with \o exactly as the format!  *)
(* calls build it.                                                         *)
(*                                                                         *)
(* Around the compiler: the query layer of MongoDbRepository that compiles *)
(* a query's filter and runs the pipeline (find_cursor, query_action), and *)
(* the menu shell TerminalDatabase with its three selection levels.        *)
(***************************************************************************)
EXTENDS Integers, Sequences, FiniteSets, TLC

VARIABLES
    tree,          \* the FilterElement as_mongo_agregate is called on (never written)
    registry,      \* QueryItems: and_fields, or_fields, queries
    stack,         \* open calls of _as_mongo_agregate on ROOT/COLLECTION nodes
    pc,            \* "walk" | "assemble" | "done"
    pipeline_str,  \* the rendered pipeline text (utils.rs:43)
    result,        \* what as_mongo_agregate returns
    last,          \* history: the node step taken last and the registry before it
    visited,       \* history: the nodes whose own step was taken, in order
    other,         \* a second call of as_mongo_agregate that is not running now
    operation,     \* the repository operation that asked for the pipeline
    datastore,     \* the driver calls issued by the operation, in order
    elements,      \* the Vec the cursor loop of the operation fills
    returned,      \* what the repository operation returns
    data_base,     \* TerminalDatabase.data_base
    collection,    \* TerminalDatabase.collection
    element,       \* TerminalDatabase.element
    cursor,        \* the TerminalCursor the shell's last handler returned
    service        \* history: the handler run last and the service call it made

\* The locals of one call of as_mongo_agregate, with its history.
call == <<tree, registry, stack, pc, pipeline_str, result, last, visited>>
\* The state of one repository operation.
repository == <<operation, datastore, elements, returned>>
\* The state of the menu shell.
shell == <<data_base, collection, element, cursor, service>>

vars == <<call, other, repository, shell>>

-----------------------------------------------------------------------------
(* Bounds of the model.                                                    *)

\* Most nodes below the root in a nested tree.
MaxNodes == 4
\* Most children of the root in a flat tree (a root with leaves/queries only).
MaxLeaves == 2
\* Most children of the root in a tree given to a repository operation.
MaxSmall == 2
\* Most documents the datastore's cursor yields to one repository operation.
MaxDocs == 2
\* Most names the repository holds at each level: data bases, collections
\* of a data base, elements of a collection.
MaxNames == 2
\* Most children of the root in a tree whose ROOT, COLLECTION and QUERY nodes
\* carry values the walk does not read.
MaxFlagged == 1

-----------------------------------------------------------------------------
(* Data model: FilterValue and FilterElement.                              *)

EFilterCategory == {"ROOT", "COLLECTION", "QUERY", "ID", "STRING", "BOOLEAN", "NUMERIC"}

LeafCategories == {"ID", "STRING", "BOOLEAN", "NUMERIC"}

FilterValue(category, value, children) ==
    [category |-> category, value |-> value, children |-> children]

FilterElement(field, value, is_or, is_negate) ==
    [field |-> field, value |-> value, is_or |-> is_or, is_negate |-> is_negate]

Leaf(field, category, raw, is_or, is_negate) ==
    FilterElement(field, FilterValue(category, raw, <<>>), is_or, is_negate)

Query(raw) ==
    FilterElement("", FilterValue("QUERY", raw, <<>>), FALSE, FALSE)

Collection(children, is_or) ==
    FilterElement("", FilterValue("COLLECTION", "", children), is_or, FALSE)

Root(children) ==
    FilterElement("", FilterValue("ROOT", "", children), FALSE, FALSE)

-----------------------------------------------------------------------------
(* The trees the model compiles.                                           *)

\* One (field, category, raw) per leaf category.
LeafPayloads ==
    { <<"status", "STRING", "active">>,
      <<"age", "NUMERIC", "30">>,
      <<"a", "ID", "6f1">>,
      <<"b", "BOOLEAN", "true">> }

\* Every combination of payload, is_or and is_negate.
FullLeaves ==
    { Leaf(p[1], p[2], p[3], o, n) : p \in LeafPayloads, o \in BOOLEAN, n \in BOOLEAN }

Queries ==
    { Query("{ \"$limit\": 5 }"), Query("{ \"$skip\": 1 }") }

\* The childless nodes of nested trees before they are given their field or
\* fragment: a conjunctive leaf, a negated disjunctive leaf, a QUERY.
SampleNodes ==
    { Leaf("", "STRING", "x", FALSE, FALSE),
      Leaf("", "NUMERIC", "7", TRUE, TRUE),
      Query("") }

RECURSIVE ForestsUpTo(_)
\* The table t of the sequences of nodes by size: t[k + 1] holds those with
\* exactly k nodes in all, k in 0..n. A node of size s is a childless node
\* (s = 1) or a COLLECTION over a sequence of s - 1 nodes.
ForestsUpTo(n) ==
    IF n = 0 THEN << { <<>> } >>
    ELSE
        LET t == ForestsUpTo(n - 1)
            Nodes(s) ==
                (IF s = 1 THEN SampleNodes ELSE {})
                    \cup { Collection(f, o) : f \in t[s], o \in BOOLEAN }
        IN  Append(t, UNION { { << x >> \o f : x \in Nodes(s), f \in t[n - s + 1] }
                              : s \in 1..n })

\* The sequences of nodes with exactly n nodes in all.
Forests(n) == ForestsUpTo(n)[n + 1]

\* The nodes with exactly n nodes in their subtree, themselves included.
TreesOfSize(n) ==
    (IF n = 1 THEN SampleNodes ELSE {})
        \cup { Collection(f, o) : f \in Forests(n - 1), o \in BOOLEAN }

Names == << "a", "b", "c", "d", "e", "f", "g", "h" >>
Numerals == << "1", "2", "3", "4", "5", "6", "7", "8" >>

RECURSIVE LabelForest(_, _)
\* f with its k-th leaf or QUERY, in traversal order, given the k-th field
\* name or the fragment { "$limit": k }, so that no two nodes of a tree
\* render alike; nxt is the first number not used.
LabelForest(f, k) ==
    IF Len(f) = 0 THEN [f |-> <<>>, nxt |-> k]
    ELSE
        LET t == Head(f)
            h == CASE t.value.category = "COLLECTION" ->
                        LET c == LabelForest(t.value.children, k)
                        IN  [f |-> << Collection(c.f, t.is_or) >>, nxt |-> c.nxt]
                   [] t.value.category = "QUERY" ->
                        [f |-> << Query("{ \"$limit\": " \o Numerals[k] \o " }") >>,
                         nxt |-> k + 1]
                   [] OTHER ->
                        [f |-> << [t EXCEPT !.field = Names[k]] >>, nxt |-> k + 1]
            r == LabelForest(Tail(f), h.nxt)
        IN  [f |-> h.f \o r.f, nxt |-> r.nxt]

\* Whether t is a nested tree: a root over at most MaxNodes nodes, labelled.
\* (Written with \E so that the trees are drawn piece by piece.)
IsNestedTree(t) ==
    \/ t = Root(<<>>)
    \/ \E n \in 1..MaxNodes : \E s \in 1..n :
         \E x \in TreesOfSize(s), f \in Forests(n - s) :
            t = Root(LabelForest(<< x >> \o f, 1).f)

RECURSIVE SeqsUpTo(_, _)
SeqsUpTo(S, n) ==
    IF n = 0 THEN { <<>> }
    ELSE SeqsUpTo(S, n - 1)
            \cup { Append(s, x) : s \in { q \in SeqsUpTo(S, n - 1) : Len(q) = n - 1 }, x \in S }

FlatTrees == { Root(f) : f \in SeqsUpTo(FullLeaves \cup Queries, MaxLeaves) }

\* Nodes whose raw value holds an unescaped quote: a QUERY fragment and a
\* STRING value.
Malformed ==
    { Query("{ \"$li\"mit\": 5 }"),
      Leaf("name", "STRING", "ac\"tive", FALSE, FALSE) }

SmallLeaves ==
    { Leaf("status", "STRING", "active", FALSE, FALSE),
      Leaf("age", "NUMERIC", "30", TRUE, TRUE),
      Query("{ \"$limit\": 5 }") }

\* The filters of the queries given to the repository: a root over leaves,
\* QUERY nodes and one-child COLLECTIONs, well-formed and malformed.
SmallNodes ==
    SmallLeaves \cup Malformed
        \cup { Collection(<< Leaf("status", "STRING", "active", FALSE, FALSE) >>, TRUE),
               Collection(<< Query("{ \"$li\"mit\": 5 }") >>, FALSE) }

SmallTrees == { Root(f) : f \in SeqsUpTo(SmallNodes, MaxSmall) }

-----------------------------------------------------------------------------
(* QueryItems and the text helpers.                                        *)

QueryItems(and_fields, or_fields, queries) ==
    [and_fields |-> and_fields, or_fields |-> or_fields, queries |-> queries]

\* utils.rs:17, the registry every compilation starts from.
NewRegistry == QueryItems(<<>>, <<>>, <<>>)

RECURSIVE join(_, _)
\* Vec<String>::join(sep)
join(v, sep) ==
    IF Len(v) = 0 THEN ""
    ELSE IF Len(v) = 1 THEN v[1]
    ELSE v[1] \o sep \o join(Tail(v), sep)

-----------------------------------------------------------------------------
(* FilterValue::as_mongo_agregate: the rendered value of a node.           *)

\* Every category rendered as its raw text, STRING and ID included.
FilterValue_as_mongo_agregate_unquoted(self) == self.value

FilterValue_as_mongo_agregate(self) ==
    CASE self.category = "ID" -> "\"" \o self.value \o "\""
      [] self.category = "QUERY" -> self.value
      [] self.category = "STRING" -> "\"" \o self.value \o "\""
      [] self.category = "BOOLEAN" -> self.value
      [] self.category = "NUMERIC" -> self.value
      [] self.category = "COLLECTION" -> self.value
      [] self.category = "ROOT" -> self.value

-----------------------------------------------------------------------------
(* FilterElement::_as_mongo_agregate, after the children were walked.      *)

\* is_negate not read: the value is left bare.
negate_ignored(self, value) == value

\* utils.rs:100-102
negate(self, value) ==
    IF self.is_negate
    THEN "{ \"$not\": { \"$eq\": " \o value \o " } }"
    ELSE value

\* utils.rs:104
leaf_query(self) ==
    "{ \"" \o self.field \o "\": "
        \o negate(self, FilterValue_as_mongo_agregate(self.value)) \o " }"

\* The clause put at the front of its bucket instead of the back.
route_front(self, query, reg) ==
    IF self.is_or
    THEN [reg EXCEPT !.or_fields = << query >> \o @]
    ELSE [reg EXCEPT !.and_fields = << query >> \o @]

\* The two buckets taken for each other.
route_swapped(self, query, reg) ==
    IF self.is_or
    THEN [reg EXCEPT !.and_fields = Append(@, query)]
    ELSE [reg EXCEPT !.or_fields = Append(@, query)]

\* utils.rs:106-112
route(self, query, reg) ==
    IF self.is_or
    THEN [reg EXCEPT !.or_fields = Append(@, query)]
    ELSE [reg EXCEPT !.and_fields = Append(@, query)]

\* utils.rs:100-112, a leaf node (ID, STRING, BOOLEAN, NUMERIC)
leaf_step(self, reg) == route(self, leaf_query(self), reg)

\* A QUERY fragment routed like a clause, into the conjunction bucket.
query_step_as_clause(self, reg) ==
    [reg EXCEPT !.and_fields = Append(@, FilterValue_as_mongo_agregate(self.value))]

\* A QUERY node that goes on to utils.rs:100-102: its fragment is wrapped
\* when is_negate is set.
query_step_negated(self, reg) ==
    [reg EXCEPT !.queries =
        Append(@, negate(self, FilterValue_as_mongo_agregate(self.value)))]

\* utils.rs:95-98, a QUERY node
query_step(self, reg) ==
    [reg EXCEPT !.queries = Append(@, FilterValue_as_mongo_agregate(self.value))]

\* utils.rs:71-75, the first drain
drain_and(st) ==
    IF Len(st.reg.and_fields) # 0
    THEN [block |-> Append(st.block, "\"$and\": [ " \o join(st.reg.and_fields, ", ") \o " ]"),
          reg |-> [st.reg EXCEPT !.and_fields = <<>>]]
    ELSE st

\* utils.rs:77-81, the second drain: its condition reads and_fields
drain_or(st) ==
    IF Len(st.reg.and_fields) # 0
    THEN [block |-> Append(st.block, "\"$or\": [ " \o join(st.reg.or_fields, ", ") \o " ]"),
          reg |-> [st.reg EXCEPT !.or_fields = <<>>]]
    ELSE st

\* utils.rs:83-92
push_block(self, st) ==
    IF Len(st.block) # 0
    THEN route(self, " { " \o join(st.block, ", ") \o " } ", st.reg)
    ELSE st.reg

\* utils.rs:68-93, a COLLECTION node once its children were walked
collection_step(self, reg) ==
    push_block(self, drain_or(drain_and([block |-> <<>>, reg |-> reg])))

-----------------------------------------------------------------------------
(* serde_json::from_str::<Vec<Document>>: the JSON reader the pipeline     *)
(* text is handed to. A value is a tagged record; a parse step returns     *)
(* [ok, pos, v]: the value read and the position after it, or the message  *)
(* and the position of the error.                                          *)

Whitespace == {" ", "\n", "\t", "\r"}
Digits == {"0", "1", "2", "3", "4", "5", "6", "7", "8", "9"}

\* The character of s at i, "" past the end.
At(s, i) == IF i >= 1 /\ i <= Len(s) THEN SubSeq(s, i, i) ELSE ""

\* Whether s holds the word w at i.
Holds(s, i, w) == i + Len(w) - 1 <= Len(s) /\ SubSeq(s, i, i + Len(w) - 1) = w

Good(pos, v) == [ok |-> TRUE, pos |-> pos, v |-> v]
Bad(pos, msg) == [ok |-> FALSE, pos |-> pos, v |-> [t |-> "err", s |-> msg]]

JStr(s) == [t |-> "str", s |-> s]
JNum(s) == [t |-> "num", s |-> s]
JLit(s) == [t |-> "lit", s |-> s]
JArr(a) == [t |-> "arr", a |-> a]
JObj(m) == [t |-> "obj", m |-> m]

\* Document::insert: a repeated key keeps its place and takes the new value.
DocInsert(m, k, v) ==
    IF \E j \in 1..Len(m) : m[j].k = k
    THEN [j \in 1..Len(m) |-> IF m[j].k = k THEN [k |-> k, v |-> v] ELSE m[j]]
    ELSE Append(m, [k |-> k, v |-> v])

RECURSIVE SkipWs(_, _), StrEnd(_, _), DigitsEnd(_, _)
RECURSIVE ParseValue(_, _), ParseMembers(_, _, _), ParseElements(_, _, _)

SkipWs(s, i) == IF At(s, i) \in Whitespace THEN SkipWs(s, i + 1) ELSE i

\* The position of the quote closing the string whose content starts at i,
\* 0 when the text ends first. A backslash takes the next character with it.
StrEnd(s, i) ==
    IF i > Len(s) THEN 0
    ELSE IF At(s, i) = "\"" THEN i
    ELSE IF At(s, i) = "\\" THEN StrEnd(s, i + 2)
    ELSE StrEnd(s, i + 1)

DigitsEnd(s, i) == IF At(s, i) \in Digits THEN DigitsEnd(s, i + 1) ELSE i

\* A string whose opening quote is at i.
ParseString(s, i) ==
    LET e == StrEnd(s, i + 1) IN
    IF e = 0 THEN Bad(Len(s) + 1, "EOF while parsing a string")
    ELSE Good(e + 1, JStr(SubSeq(s, i + 1, e - 1)))

\* A number starting at i: -? digits (. digits)?
ParseNumber(s, i) ==
    LET d == IF At(s, i) = "-" THEN i + 1 ELSE i
        e == DigitsEnd(s, d)
        f == IF At(s, e) = "." THEN DigitsEnd(s, e + 1) ELSE e
    IN  IF e = d THEN Bad(d, "invalid number")
        ELSE IF At(s, d) = "0" /\ e > d + 1 THEN Bad(d + 1, "invalid number")
        ELSE IF At(s, e) = "." /\ f = e + 1 THEN Bad(f, "invalid number")
        ELSE Good(f, JNum(SubSeq(s, i, f - 1)))

ParseValue(s, i0) ==
    LET i == SkipWs(s, i0)
        c == At(s, i)
    IN  CASE c = "" -> Bad(i, "EOF while parsing a value")
          [] c = "{" -> ParseMembers(s, i + 1, <<>>)
          [] c = "[" -> ParseElements(s, i + 1, <<>>)
          [] c = "\"" -> ParseString(s, i)
          [] c = "-" \/ c \in Digits -> ParseNumber(s, i)
          [] Holds(s, i, "true") -> Good(i + 4, JLit("true"))
          [] Holds(s, i, "false") -> Good(i + 5, JLit("false"))
          [] Holds(s, i, "null") -> Good(i + 4, JLit("null"))
          [] OTHER -> Bad(i, "expected value")

\* The members of an object, from i (after "{" or after a ","), m read so far.
ParseMembers(s, i0, m) ==
    LET i == SkipWs(s, i0)
        c == At(s, i)
    IN  IF c = "" THEN Bad(i, "EOF while parsing an object")
        ELSE IF c = "}" /\ Len(m) = 0 THEN Good(i + 1, JObj(m))
        ELSE IF c = "}" THEN Bad(i, "trailing comma")
        ELSE IF c # "\"" THEN Bad(i, "key must be a string")
        ELSE
            LET key == ParseString(s, i) IN
            IF ~key.ok THEN key
            ELSE
                LET j == SkipWs(s, key.pos) IN
                IF At(s, j) = "" THEN Bad(j, "EOF while parsing an object")
                ELSE IF At(s, j) # ":" THEN Bad(j, "expected colon")
                ELSE
                    LET val == ParseValue(s, j + 1) IN
                    IF ~val.ok THEN val
                    ELSE
                        LET n == SkipWs(s, val.pos)
                            mm == DocInsert(m, key.v.s, val.v)
                        IN  IF At(s, n) = "," THEN ParseMembers(s, n + 1, mm)
                            ELSE IF At(s, n) = "}" THEN Good(n + 1, JObj(mm))
                            ELSE IF At(s, n) = "" THEN Bad(n, "EOF while parsing an object")
                            ELSE Bad(n, "expected comma or closing brace")

\* The elements of an array, from i (after "[" or after a ","), a read so far.
ParseElements(s, i0, a) ==
    LET i == SkipWs(s, i0)
        c == At(s, i)
    IN  IF c = "" THEN Bad(i, "EOF while parsing a list")
        ELSE IF c = "]" /\ Len(a) = 0 THEN Good(i + 1, JArr(a))
        ELSE IF c = "]" THEN Bad(i, "trailing comma")
        ELSE
            LET val == ParseValue(s, i) IN
            IF ~val.ok THEN val
            ELSE
                LET n == SkipWs(s, val.pos) IN
                IF At(s, n) = "," THEN ParseElements(s, n + 1, Append(a, val.v))
                ELSE IF At(s, n) = "]" THEN Good(n + 1, JArr(Append(a, val.v)))
                ELSE IF At(s, n) = "" THEN Bad(n, "EOF while parsing a list")
                ELSE Bad(n, "expected comma or closing bracket")

Ok(pipeline) == [kind |-> "Ok", pipeline |-> pipeline, message |-> ""]
Err(message) == [kind |-> "Err", pipeline |-> <<>>, message |-> message]

\* A text that cannot be read taken for an empty pipeline.
from_str_lenient(text) ==
    LET r == ParseValue(text, 1) IN
    IF r.ok /\ r.v.t = "arr" THEN Ok(r.v.a) ELSE Ok(<<>>)

\* from_str::<Vec<Document>>(text): a JSON array of objects and nothing after it.
from_str(text) ==
    LET r == ParseValue(text, 1) IN
    IF ~r.ok THEN Err(r.v.s)
    ELSE IF r.v.t # "arr" THEN Err("invalid type: expected a sequence")
    ELSE IF \E j \in 1..Len(r.v.a) : r.v.a[j].t # "obj" THEN Err("invalid type: expected a map")
    ELSE IF SkipWs(text, r.pos) <= Len(text) THEN Err("trailing characters")
    ELSE Ok(r.v.a)

-----------------------------------------------------------------------------
(* FilterElement::as_mongo_agregate, after the walk: utils.rs:20-51.       *)

\* The match stage written without the emptiness tests of utils.rs:23-33.
matches_always(reg) ==
    << "{ \"$match\": { "
         \o join(<< "\"$and\": [ " \o join(reg.and_fields, ", ") \o " ]",
                    "\"$or\": [ " \o join(reg.or_fields, ", ") \o " ]" >>, ", ")
         \o " } }" >>

\* One match stage per bucket instead of the single stage of utils.rs:35.
matches_split(reg) ==
    (IF Len(reg.and_fields) # 0
     THEN << "{ \"$match\": { \"$and\": [ " \o join(reg.and_fields, ", ") \o " ] } }" >>
     ELSE <<>>)
    \o (IF Len(reg.or_fields) # 0
        THEN << "{ \"$match\": { \"$or\": [ " \o join(reg.or_fields, ", ") \o " ] } }" >>
        ELSE <<>>)

\* utils.rs:20-36, the match stage, if any
matches(reg) ==
    LET a == IF Len(reg.and_fields) # 0
             THEN << "\"$and\": [ " \o join(reg.and_fields, ", ") \o " ]" >>
             ELSE <<>>
        matches_collection ==
             IF Len(reg.or_fields) # 0
             THEN Append(a, "\"$or\": [ " \o join(reg.or_fields, ", ") \o " ]")
             ELSE a
    IN  IF Len(matches_collection) # 0
        THEN << "{ \"$match\": { " \o join(matches_collection, ", ") \o " } }" >>
        ELSE <<>>

\* utils.rs:38-41, the QUERY fragments as one entry
stages(reg) ==
    IF Len(reg.queries) # 0 THEN << join(reg.queries, ", ") >> ELSE <<>>

\* utils.rs:43
render(reg) == "[ " \o join(matches(reg) \o stages(reg), ", ") \o " ]"

-----------------------------------------------------------------------------
(* The state machine: one compilation of one tree.                         *)

Frame(self, entry) == [self |-> self, i |-> 1, entry |-> entry]

Step(op, self, entry, before) ==
    [op |-> op, self |-> self, entry |-> entry, before |-> before]

\* Option<String>: None, and Some(x).
None == <<>>
Some(x) == << x >>

\* No second call of as_mongo_agregate was made.
NoCall == [pc |-> "none"]

\* No repository operation asked for the pipeline: as_mongo_agregate was
\* called on its own.
NoOperation == [name |-> "none", value |-> None]
NotReturned == [kind |-> "None", elements |-> <<>>, message |-> ""]
RepositoryIdle ==
    /\ operation = NoOperation
    /\ datastore = <<>>
    /\ elements = <<>>
    /\ returned = NotReturned

\* The menu shell is not running: terminal_database.rs:63-70, and no menu.
NoCursor == [header |-> "", options |-> <<>>]
NoRequest == [call |-> "none", query |-> <<>>]
NoService ==
    [handler |-> "none", args |-> <<>>, request |-> NoRequest,
     before |-> [data_base |-> None, collection |-> None, element |-> None]]
ShellIdle ==
    /\ data_base = None
    /\ collection = None
    /\ element = None
    /\ cursor = NoCursor
    /\ service = NoService

\* utils.rs:16-18: a fresh registry, and the call of _as_mongo_agregate on the root.
Init ==
    /\ (IsNestedTree(tree) \/ tree \in FlatTrees)
    /\ registry = NewRegistry
    /\ stack = << Frame(tree, NewRegistry) >>
    /\ pc = "walk"
    /\ pipeline_str = ""
    /\ result = [kind |-> "None", pipeline |-> <<>>, message |-> ""]
    /\ last = Step("call", tree, NewRegistry, NewRegistry)
    /\ visited = <<>>
    /\ other = NoCall
    /\ RepositoryIdle
    /\ ShellIdle

Top == stack[Len(stack)]

\* The loop of utils.rs:133 stepping over every second child.
Advance_skipping == [stack EXCEPT ![Len(stack)].i = @ + 2]

\* Whether the loop of collection_as_mongo_agregate has a child left.
HasChild == pc = "walk" /\ Len(stack) > 0 /\ Top.i <= Len(Top.self.value.children)

Child == Top.self.value.children[Top.i]

Advance == [stack EXCEPT ![Len(stack)].i = @ + 1]

\* utils.rs:134 on a leaf child: the whole call, utils.rs:54-62 and 100-112.
VisitLeaf ==
    /\ HasChild
    /\ Child.value.category \in LeafCategories
    /\ registry' = leaf_step(Child, registry)
    /\ stack' = Advance
    /\ last' = Step("leaf", Child, registry, registry)
    /\ visited' = Append(visited, Child)
    /\ UNCHANGED <<tree, pc, pipeline_str, result>>
    /\ UNCHANGED <<other, repository, shell>>

\* utils.rs:134 on a QUERY child: the whole call, utils.rs:54-62 and 95-98.
VisitQuery ==
    /\ HasChild
    /\ Child.value.category = "QUERY"
    /\ registry' = query_step(Child, registry)
    /\ stack' = Advance
    /\ last' = Step("query", Child, registry, registry)
    /\ visited' = Append(visited, Child)
    /\ UNCHANGED <<tree, pc, pipeline_str, result>>
    /\ UNCHANGED <<other, repository, shell>>

\* utils.rs:134 on a COLLECTION child: the call opens (utils.rs:54-58) and
\* its own loop over its children starts, on the same registry.
EnterCollection ==
    /\ HasChild
    /\ Child.value.category = "COLLECTION"
    /\ stack' = Append(Advance, Frame(Child, registry))
    /\ last' = Step("enter", Child, registry, registry)
    /\ UNCHANGED <<tree, registry, pc, pipeline_str, result, visited>>
    /\ UNCHANGED <<other, repository, shell>>

\* utils.rs:68-93: the children of a COLLECTION are done; fold and return.
FoldCollection ==
    /\ pc = "walk" /\ Len(stack) > 0
    /\ Top.self.value.category = "COLLECTION"
    /\ Top.i > Len(Top.self.value.children)
    /\ registry' = collection_step(Top.self, registry)
    /\ stack' = SubSeq(stack, 1, Len(stack) - 1)
    /\ last' = Step("collection", Top.self, Top.entry, registry)
    /\ visited' = Append(visited, Top.self)
    /\ UNCHANGED <<tree, pc, pipeline_str, result>>
    /\ UNCHANGED <<other, repository, shell>>

\* utils.rs:64-66: the children of the ROOT are done; return the registry.
ReturnRoot ==
    /\ pc = "walk" /\ Len(stack) > 0
    /\ Top.self.value.category = "ROOT"
    /\ Top.i > Len(Top.self.value.children)
    /\ stack' = SubSeq(stack, 1, Len(stack) - 1)
    /\ pc' = "assemble"
    /\ last' = Step("root", Top.self, Top.entry, registry)
    /\ visited' = Append(visited, Top.self)
    /\ UNCHANGED <<tree, registry, pipeline_str, result>>
    /\ UNCHANGED <<other, repository, shell>>

\* utils.rs:20-51: render the pipeline text, parse it, return.
Serialize ==
    /\ pc = "assemble"
    /\ pipeline_str' = render(registry)
    /\ result' = from_str(render(registry))
    /\ pc' = "done"
    /\ last' = Step("serialize", tree, NewRegistry, registry)
    /\ UNCHANGED <<tree, registry, stack, visited>>
    /\ UNCHANGED <<other, repository, shell>>

Next ==
    \/ VisitLeaf
    \/ VisitQuery
    \/ EnterCollection
    \/ FoldCollection
    \/ ReturnRoot
    \/ Serialize

Spec == Init /\ [][Next]_vars

\* The steps of the walk, utils.rs:54-113 and 132-137.
Walk == VisitLeaf \/ VisitQuery \/ EnterCollection \/ FoldCollection \/ ReturnRoot

\* The call runs on a thread that is not stopped: while the walk has a step
\* to take, it takes it.
SpecFair == Spec /\ WF_vars(Walk)

-----------------------------------------------------------------------------
(* The query layer of MongoDbRepository: an operation compiles the filter  *)
(* of its query, runs the pipeline and walks the cursor.                   *)

\* The operations of IDBRepository built on find_cursor; update carries the
\* text of the new document.
Operations ==
    { [name |-> n, value |-> None] :
        n \in {"find_query_lite", "find_query", "find", "delete"} }
    \cup { [name |-> "update", value |-> Some(v)] :
             v \in {"{ \"a\": 1 }", "{ \"a\" }"} }

\* mongo_db_repository.rs:428-430, 442-443, 475-481: the EAction an
\* operation gives to query_action.
EAction(op) ==
    CASE op.name = "delete" -> "DELETE"
      [] op.name = "update" -> "UPDATE"
      [] OTHER -> "FIND"

\* Result<_, ConnectException> of an operation.
Returned(elems) == [kind |-> "Ok", elements |-> elems, message |-> ""]
Failed(message) == [kind |-> "Err", elements |-> <<>>, message |-> message]

\* The calls made on the driver.
Aggregate(pipeline) == [call |-> "aggregate", arg |-> pipeline]
CursorNext == [call |-> "next", arg |-> <<>>]
DeleteOne(document) == [call |-> "delete_one", arg |-> << document >>]
ReplaceOne(document, new_document) ==
    [call |-> "replace_one", arg |-> << document, new_document >>]

\* What a driver call may answer.
DriverOutcomes == {"ok", "error"}

\* The documents of the collection: one with an "_id", one without.
Documents ==
    { JObj(<< [k |-> "_id", v |-> JStr("a1")], [k |-> "n", v |-> JNum("1")] >>),
      JObj(<< [k |-> "n", v |-> JNum("1")] >>) }

\* What cursor.next() may yield: None, Some(Err), Some(Ok(document)).
CursorYields ==
    { [kind |-> "None", document |-> JObj(<<>>)],
      [kind |-> "Err", document |-> JObj(<<>>)] }
    \cup { [kind |-> "Ok", document |-> d] : d \in Documents }

\* Document::get: the value of a key, as an Option.
Get(document, key) ==
    LET at == { j \in 1..Len(document.m) : document.m[j].k = key }
    IN  IF at = {} THEN None ELSE Some(document.m[CHOOSE j \in at : TRUE].v)

\* The aggregate call issued whatever the compiler returned.
find_cursor_unchecked(pipeline, r_cursor) ==
    [issued |-> << Aggregate(pipeline.pipeline) >>,
     r |-> IF r_cursor = "error" THEN Failed("aggregate failed") ELSE Returned(<<>>)]

\* mongo_db_repository.rs:100-111: the compiler's error is returned as it
\* is; otherwise aggregate is called with the pipeline, and its error is
\* returned or the cursor is.
find_cursor(pipeline, r_cursor) ==
    IF pipeline.kind = "Err"
    THEN [issued |-> <<>>, r |-> Failed(pipeline.message)]
    ELSE [issued |-> << Aggregate(pipeline.pipeline) >>,
          r |-> IF r_cursor = "error" THEN Failed("aggregate failed") ELSE Returned(<<>>)]

\* mongo_db_repository.rs:230-245.
document_from_string(value) ==
    LET json == ParseValue(value, 1) IN
    IF ~json.ok THEN Failed("Invalid JSON format: " \o json.v.s)
    ELSE IF json.v.t # "obj" THEN Failed("Failed to convert JSON to BSON")
    ELSE Returned(<< json.v >>)

\* mongo_db_repository.rs:185-201 with document_keys, 120-157.
make_document_data(document) ==
    IF Get(document, "_id") = None THEN Failed("Identifier not found.")
    ELSE Returned(<< [base_key |-> Get(document, "_id")[1].s, document |-> document] >>)

\* One turn of the cursor loop on a document, r_write being the driver's
\* answer to a write: what is pushed, what is issued, and how it ends.
\* mongo_db_repository.rs:416-421 (find_query_lite) and 171-179 (query_action).
document_step(op, document, r_write) ==
    LET done(r) == IF r_write = "error" THEN Failed("write failed") ELSE r
        data == make_document_data(document)
    IN  IF op.name = "find_query_lite"
        THEN [push |-> IF Get(document, "_id") = None THEN <<>>
                       ELSE << "_id=\"" \o Get(document, "_id")[1].s \o "\"" >>,
              issued |-> <<>>, r |-> Returned(<<>>)]
        ELSE IF data.kind = "Err"
        THEN [push |-> <<>>, issued |-> <<>>, r |-> data]
        ELSE IF EAction(op) = "FIND"
        THEN [push |-> data.elements, issued |-> <<>>, r |-> Returned(<<>>)]
        ELSE IF EAction(op) = "DELETE"
        THEN [push |-> data.elements, issued |-> << DeleteOne(document) >>,
              r |-> done(Returned(<<>>))]
        ELSE IF op.value = None
        THEN [push |-> data.elements, issued |-> <<>>,
              r |-> Failed("Cannot update None document.")]
        ELSE IF document_from_string(op.value[1]).kind = "Err"
        THEN [push |-> data.elements, issued |-> <<>>,
              r |-> document_from_string(op.value[1])]
        ELSE [push |-> data.elements,
              issued |-> << ReplaceOne(document,
                                       document_from_string(op.value[1]).elements[1]) >>,
              r |-> done(Returned(<<>>))]

\* mongo_db_repository.rs:90-98: the operation is called with a query whose
\* filter is the tree, and as_mongo_agregate is called on it.
InitQuery ==
    /\ tree \in SmallTrees
    /\ registry = NewRegistry
    /\ stack = << Frame(tree, NewRegistry) >>
    /\ pc = "walk"
    /\ pipeline_str = ""
    /\ result = [kind |-> "None", pipeline |-> <<>>, message |-> ""]
    /\ last = Step("call", tree, NewRegistry, NewRegistry)
    /\ visited = <<>>
    /\ other = NoCall
    /\ operation \in Operations
    /\ datastore = <<>>
    /\ elements = <<>>
    /\ returned = NotReturned
    /\ ShellIdle

\* mongo_db_repository.rs:100-111, and the return through "?" of
\* mongo_db_repository.rs:164 and 410 when find_cursor gives an error.
FindCursor ==
    /\ pc = "done"
    /\ operation # NoOperation
    /\ \E r_cursor \in DriverOutcomes :
         LET f == find_cursor(result, r_cursor) IN
         /\ datastore' = datastore \o f.issued
         /\ IF f.r.kind = "Err"
            THEN returned' = f.r /\ pc' = "returned"
            ELSE returned' = returned /\ pc' = "cursor"
    /\ UNCHANGED <<tree, registry, stack, pipeline_str, result, last, visited>>
    /\ UNCHANGED <<other, operation, elements, shell>>

\* The documents read from the cursor so far.
Fetched == Len(SelectSeq(datastore, LAMBDA c : c.call = "next"))

\* mongo_db_repository.rs:165-182 and 411-425: one turn of the cursor loop,
\* or its end; find (mongo_db_repository.rs:442-449) keeps the first element.
NextDocument ==
    /\ pc = "cursor"
    /\ \E r_document \in CursorYields, r_write \in DriverOutcomes :
         LET step == document_step(operation, r_document.document, r_write) IN
         CASE r_document.kind = "None" ->
                /\ datastore' = Append(datastore, CursorNext)
                /\ elements' = elements
                /\ returned' = Returned(IF operation.name = "find" /\ elements # <<>>
                                        THEN Some(elements[1]) ELSE elements)
                /\ pc' = "returned"
           [] r_document.kind = "Err" ->
                /\ datastore' = Append(datastore, CursorNext)
                /\ elements' = elements
                /\ returned' = Failed("cursor failed")
                /\ pc' = "returned"
           [] OTHER ->
                /\ Fetched < MaxDocs
                /\ datastore' = Append(datastore, CursorNext) \o step.issued
                /\ elements' = elements \o step.push
                /\ IF step.r.kind = "Err"
                   THEN returned' = step.r /\ pc' = "returned"
                   ELSE returned' = returned /\ pc' = "cursor"
    /\ UNCHANGED <<tree, registry, stack, pipeline_str, result, last, visited>>
    /\ UNCHANGED <<other, operation, shell>>

NextQuery ==
    \/ VisitLeaf
    \/ VisitQuery
    \/ EnterCollection
    \/ FoldCollection
    \/ ReturnRoot
    \/ Serialize
    \/ FindCursor
    \/ NextDocument

SpecQuery == InitQuery /\ [][NextQuery]_vars

-----------------------------------------------------------------------------
(* Two calls of as_mongo_agregate, the second made while the first is at   *)
(* any point or has returned; each call has its own locals, and the two    *)
(* take their steps in any order.                                          *)

\* The trees the second call is made on, besides the tree of the first.
OtherTrees ==
    { Root(<<>>),
      Root(<< Leaf("age", "NUMERIC", "30", TRUE, TRUE), Query("{ \"$limit\": 5 }") >>),
      Root(<< Collection(<< Leaf("status", "STRING", "active", FALSE, FALSE) >>, TRUE),
              Leaf("name", "STRING", "ac\"tive", FALSE, FALSE) >>) }

\* A call that goes on with the registry an earlier call left behind.
Called_reusing(self, left) ==
    [tree |-> self, registry |-> left,
     stack |-> << Frame(self, left) >>,
     pc |-> "walk", pipeline_str |-> "",
     result |-> [kind |-> "None", pipeline |-> <<>>, message |-> ""],
     last |-> Step("call", self, left, left),
     visited |-> <<>>]

\* utils.rs:16-18: the locals a call on self starts with. left is the
\* registry of whatever call ran before; the code does not read it.
Called(self, left) ==
    [tree |-> self, registry |-> NewRegistry,
     stack |-> << Frame(self, NewRegistry) >>,
     pc |-> "walk", pipeline_str |-> "",
     result |-> [kind |-> "None", pipeline |-> <<>>, message |-> ""],
     last |-> Step("call", self, NewRegistry, NewRegistry),
     visited |-> <<>>]

\* The locals of the running call.
Locals ==
    [tree |-> tree, registry |-> registry, stack |-> stack, pc |-> pc,
     pipeline_str |-> pipeline_str, result |-> result, last |-> last,
     visited |-> visited]

\* The locals of c become those of the running call.
Run(c) ==
    /\ tree' = c.tree
    /\ registry' = c.registry
    /\ stack' = c.stack
    /\ pc' = c.pc
    /\ pipeline_str' = c.pipeline_str
    /\ result' = c.result
    /\ last' = c.last
    /\ visited' = c.visited

InitTwice ==
    /\ tree \in SmallTrees
    /\ registry = Called(tree, NewRegistry).registry
    /\ stack = Called(tree, NewRegistry).stack
    /\ pc = Called(tree, NewRegistry).pc
    /\ pipeline_str = Called(tree, NewRegistry).pipeline_str
    /\ result = Called(tree, NewRegistry).result
    /\ last = Called(tree, NewRegistry).last
    /\ visited = Called(tree, NewRegistry).visited
    /\ other = NoCall
    /\ RepositoryIdle
    /\ ShellIdle

\* utils.rs:16-18: a second call begins, on the same tree or on another.
Call ==
    /\ other = NoCall
    /\ \E self \in {tree} \cup OtherTrees : Run(Called(self, registry))
    /\ other' = Locals
    /\ UNCHANGED <<repository, shell>>

\* The call that was not running takes the next steps.
Switch ==
    /\ other # NoCall
    /\ Run(other)
    /\ other' = Locals
    /\ UNCHANGED <<repository, shell>>

NextTwice ==
    \/ VisitLeaf
    \/ VisitQuery
    \/ EnterCollection
    \/ FoldCollection
    \/ ReturnRoot
    \/ Serialize
    \/ Call
    \/ Switch

SpecTwice == InitTwice /\ [][NextTwice]_vars

-----------------------------------------------------------------------------
(* Two trees that differ only in values the walk does not read: field and  *)
(* is_negate of a ROOT, COLLECTION or QUERY node, is_or of a ROOT or QUERY *)
(* node. The first tree is compiled, then the second.                      *)

\* (field, is_or, is_negate) of a node: the values the constructors give,
\* and each of the three changed alone.
Unread ==
    { <<"", FALSE, FALSE>>, <<"x", FALSE, FALSE>>,
      <<"", TRUE, FALSE>>, <<"", FALSE, TRUE>> }

RECURSIVE Erased(_)
\* The node with every value the walk does not read set to what the
\* constructors give, in the node and below it. Besides the value of the
\* node, utils.rs:85 reads is_or of a COLLECTION, utils.rs:100-106 read
\* field, is_negate and is_or of a leaf, and utils.rs:64-66 and 95-98 read
\* none of the three.
Erased(node) ==
    LET reads ==
            CASE node.value.category = "ROOT" -> {}
              [] node.value.category = "QUERY" -> {}
              [] node.value.category = "COLLECTION" -> {"is_or"}
              [] OTHER -> {"field", "is_or", "is_negate"}
    IN  FilterElement(
            IF "field" \in reads THEN node.field ELSE "",
            FilterValue(node.value.category, node.value.value,
                        [i \in 1..Len(node.value.children) |->
                            Erased(node.value.children[i])]),
            IF "is_or" \in reads THEN node.is_or ELSE FALSE,
            IF "is_negate" \in reads THEN node.is_negate ELSE FALSE)

\* The children of the root: two leaves; a QUERY with any of the values of
\* Unread; a COLLECTION over a leaf, conjunctive or disjunctive, with any
\* field and is_negate of Unread; a COLLECTION over such a QUERY and a leaf.
FlaggedNodes ==
    LET queries ==
            { FilterElement(u[1], FilterValue("QUERY", "{ \"$limit\": 5 }", <<>>),
                            u[2], u[3]) : u \in Unread }
        collections ==
            { FilterElement(u[1],
                    FilterValue("COLLECTION", "",
                                << Leaf("status", "STRING", "active", FALSE, FALSE) >>),
                    o, u[3]) : u \in { v \in Unread : ~v[2] }, o \in BOOLEAN }
    IN  { Leaf("status", "STRING", "active", FALSE, FALSE),
          Leaf("age", "NUMERIC", "30", TRUE, TRUE) }
            \cup queries
            \cup collections
            \cup { Collection(<< q, Leaf("a", "ID", "6f1", FALSE, TRUE) >>, FALSE) :
                     q \in queries }

FlaggedTrees ==
    { FilterElement(u[1], FilterValue("ROOT", "", f), u[2], u[3]) :
        u \in Unread, f \in SeqsUpTo(FlaggedNodes, MaxFlagged) }

\* The trees that differ from self in nothing but values the walk does not
\* read, self among them.
Twins(self) == { t \in FlaggedTrees : Erased(t) = Erased(self) }

InitFlagged ==
    /\ tree \in FlaggedTrees
    /\ registry = Called(tree, NewRegistry).registry
    /\ stack = Called(tree, NewRegistry).stack
    /\ pc = Called(tree, NewRegistry).pc
    /\ pipeline_str = Called(tree, NewRegistry).pipeline_str
    /\ result = Called(tree, NewRegistry).result
    /\ last = Called(tree, NewRegistry).last
    /\ visited = Called(tree, NewRegistry).visited
    /\ other = NoCall
    /\ RepositoryIdle
    /\ ShellIdle

\* utils.rs:16-18: the first call has returned, and a call begins on a twin
\* of its tree.
CallTwin ==
    /\ other = NoCall
    /\ pc = "done"
    /\ \E self \in Twins(tree) : Run(Called(self, registry))
    /\ other' = Locals
    /\ UNCHANGED <<repository, shell>>

NextFlagged ==
    \/ VisitLeaf
    \/ VisitQuery
    \/ EnterCollection
    \/ FoldCollection
    \/ ReturnRoot
    \/ Serialize
    \/ CallTwin

SpecFlagged == InitFlagged /\ [][NextFlagged]_vars

-----------------------------------------------------------------------------
(* The menu shell: TerminalDatabase, terminal_database.rs.                 *)

\* The names the service may list at the three levels.
DataBaseNames == { "db" \o Numerals[j] : j \in 1..MaxNames }
CollectionNames == { "col" \o Numerals[j] : j \in 1..MaxNames }
ElementNames == { "_id=" \o Numerals[j] : j \in 1..MaxNames }

\* terminal_database.rs:27-32, without the service handle.
TerminalDatabase(d, c, e) == [data_base |-> d, collection |-> c, element |-> e]

\* TerminalOption::from and from_args: title, option, args and the manager
\* the option is for.
TerminalOption(title, option, args, manager) ==
    [title |-> title, option |-> option, args |-> args, manager |-> manager]

\* TerminalCursor::new(header) with the options pushed.
TerminalCursor(header, options) == [header |-> header, options |-> options]

\* The escape sequences of terminal_manager.
ANSI_BOLD == "<b>"
ANSI_COLOR_RESET == "</b>"

\* What the service answers: an error, or the names it lists, or for find
\* the document, if any.
ServiceErr(message) == [kind |-> "Err", names |-> <<>>, message |-> message]
ServiceOk(names) == [kind |-> "Ok", names |-> names, message |-> ""]

RECURSIVE Listings(_)
\* The lists of names of a level, in the level's order.
Listings(j) ==
    IF j = 0 THEN { <<>> }
    ELSE Listings(j - 1) \cup { Append(l, Numerals[j]) : l \in Listings(j - 1) }

Answers(prefix) ==
    { ServiceErr("connection refused") }
        \cup { ServiceOk([j \in 1..Len(l) |-> prefix \o l[j]]) : l \in Listings(MaxNames) }

\* The calls a handler makes on the service, with their query.
ListDataBases == [call |-> "list_data_bases", query |-> <<>>]
ListCollections(d) == [call |-> "list_collections", query |-> << d >>]
FindAllLite(d, c) == [call |-> "find_all_lite", query |-> << d, c >>]
Find(d, c, e) == [call |-> "find", query |-> << d, c, e >>]

\* What a handler gives: the manager after it, the menu, the call it made.
Handled(self, menu, request) == [self |-> self, cursor |-> menu, request |-> request]

\* terminal_database.rs:83-103.
info_headers(self, header) ==
    LET headers ==
            (IF self.data_base # None
             THEN << "* Selected data base '" \o self.data_base[1] \o "'." >> ELSE <<>>)
            \o (IF self.collection # None
                THEN << "* Selected collection '" \o self.collection[1] \o "'." >> ELSE <<>>)
            \o (IF self.element # None
                THEN << "* Selected element '" \o self.element[1] \o "'." >> ELSE <<>>)
    IN  IF headers = <<>> THEN header
        ELSE header \o "\n\n" \o join(headers, "\n")

\* terminal_database.rs:79-81.
default_header(self) == info_headers(self, "Select any option: ")

\* terminal_database.rs:105-126.
home(self, header) ==
    TerminalCursor(header,
        << TerminalOption("Show databases", "SHOW_DATABASES", <<>>, self),
           TerminalOption("Select database", "SELECT_DATABASE_PANEL", <<>>, self) >>
        \o (IF self.data_base # None
            THEN << TerminalOption("Show collections", "SHOW_COLLECTIONS", <<>>, self),
                    TerminalOption("Select collection", "SELECT_COLLECTION_PANEL", <<>>, self) >>
            ELSE <<>>)
        \o (IF self.collection # None
            THEN << TerminalOption("Show elements", "SHOW_ELEMENTS", <<>>, self),
                    TerminalOption("Select element", "SELECT_ELEMENTS_PANEL", <<>>, self) >>
            ELSE <<>>)
        \o (IF self.element # None
            THEN << TerminalOption("Show element", "SHOW_ELEMENT", <<>>, self) >>
            ELSE <<>>))

\* terminal_database.rs:128-131.
status(self) == Handled(self, TerminalCursor("//TODO:", <<>>), NoRequest)

\* terminal_database.rs:408-410.
reset_element(self) == [self EXCEPT !.element = None]

\* The collection cleared and the element kept.
reset_collection_only(self) == [self EXCEPT !.collection = None]

\* terminal_database.rs:403-406.
reset_collection(self) == reset_element([self EXCEPT !.collection = None])

\* The data base cleared and the levels below it kept.
reset_database_only(self) == [self EXCEPT !.data_base = None]

\* terminal_database.rs:398-401.
reset_database(self) == reset_collection([self EXCEPT !.data_base = None])

\* terminal_database.rs:389-396: the menu to return, if the check fails.
verify_database(self) ==
    IF self.data_base = None
    THEN Some(home(self, info_headers(self, "No data base selected:")))
    ELSE None

\* The collection checked and the data base taken for granted.
verify_collection_alone(self) ==
    IF self.collection = None
    THEN Some(home(self, info_headers(self, "No collection selected:")))
    ELSE None

\* terminal_database.rs:380-387.
verify_collection(self) ==
    IF self.collection = None
    THEN Some(home(self, info_headers(self, "No collection selected:")))
    ELSE verify_database(self)

\* terminal_database.rs:371-378.
verify_element(self) ==
    IF self.element = None
    THEN Some(home(self, info_headers(self, "No element selected:")))
    ELSE verify_collection(self)

\* The header of a listing, terminal_database.rs:136-155, 206-225, 281-300.
listing(self, title, answer) ==
    LET header == IF answer.kind = "Err" THEN answer.message
                  ELSE info_headers(self, title)
        elems == [j \in 1..Len(answer.names) |->
                       " - " \o ANSI_BOLD \o answer.names[j] \o ANSI_COLOR_RESET]
    IN  (IF elems # <<>> THEN header \o "\n" ELSE header) \o "\n" \o join(elems, "\n")

\* The menu of a panel, terminal_database.rs:161-180, 237-256, 312-331.
panel(self, title, option, answer) ==
    TerminalCursor(
        IF answer.kind = "Err" THEN answer.message ELSE info_headers(self, title),
        [j \in 1..Len(answer.names) |->
            TerminalOption(answer.names[j], option, << answer.names[j] >>, self)]
        \o << TerminalOption("[None]", option, <<>>, self) >>)

\* terminal_database.rs:133-156.
show_databases(self, answer) ==
    Handled(self,
            home(self, listing(self, "The repository contains the following data bases:",
                               answer)),
            ListDataBases)

\* terminal_database.rs:158-181.
select_database_panel(self, answer) ==
    Handled(self,
            panel(self, "Select one of the following data bases:", "SELECT_DATABASE",
                  answer),
            ListDataBases)

\* A data base chosen and the levels below it cleared.
select_database_clearing(self, option) ==
    LET chosen == IF Len(option.args) > 0
                  THEN reset_collection([self EXCEPT !.data_base = Some(option.args[1])])
                  ELSE reset_database(self)
    IN  Handled(chosen, home(chosen, default_header(chosen)), NoRequest)

\* terminal_database.rs:184-194.
select_database(self, option) ==
    LET chosen == IF Len(option.args) > 0
                  THEN [self EXCEPT !.data_base = Some(option.args[1])]
                  ELSE reset_database(self)
    IN  Handled(chosen, home(chosen, default_header(chosen)), NoRequest)

\* terminal_database.rs:197-226. The query takes the selected data base.
show_collections(self, answer) ==
    IF verify_database(self) # None
    THEN Handled(self, verify_database(self)[1], NoRequest)
    ELSE Handled(self,
                 home(self, listing(self, "The repository contains the following collections:",
                                    answer)),
                 ListCollections(self.data_base))

\* terminal_database.rs:228-257.
select_collection_panel(self, answer) ==
    IF verify_database(self) # None
    THEN Handled(self, verify_database(self)[1], NoRequest)
    ELSE Handled(self,
                 panel(self, "Select one of the following collections:",
                       "SELECT_COLLECTION", answer),
                 ListCollections(self.data_base))

\* terminal_database.rs:259-269.
select_collection(self, option) ==
    LET chosen == IF Len(option.args) > 0
                  THEN [self EXCEPT !.collection = Some(option.args[1])]
                  ELSE reset_collection(self)
    IN  Handled(chosen, home(chosen, default_header(chosen)), NoRequest)

\* terminal_database.rs:272-301. The query takes the selected data base and
\* collection.
show_elements(self, answer) ==
    IF verify_collection(self) # None
    THEN Handled(self, verify_collection(self)[1], NoRequest)
    ELSE Handled(self,
                 home(self, listing(self, "The repository contains the following items:",
                                    answer)),
                 FindAllLite(self.data_base, self.collection))

\* terminal_database.rs:303-332.
select_element_panel(self, answer) ==
    IF verify_collection(self) # None
    THEN Handled(self, verify_collection(self)[1], NoRequest)
    ELSE Handled(self,
                 panel(self, "Select one of the following elements:", "SELECT_ELEMENT",
                       answer),
                 FindAllLite(self.data_base, self.collection))

\* terminal_database.rs:334-344.
select_element(self, option) ==
    LET chosen == IF Len(option.args) > 0
                  THEN [self EXCEPT !.element = Some(option.args[1])]
                  ELSE reset_element(self)
    IN  Handled(chosen, home(chosen, default_header(chosen)), NoRequest)

\* terminal_database.rs:346-368; answer.names is the Option of the document.
show_element(self, answer) ==
    IF verify_element(self) # None
    THEN Handled(self, verify_element(self)[1], NoRequest)
    ELSE Handled(self,
                 home(self,
                      IF answer.kind = "Err"
                      THEN info_headers(self, "Cannot find enlement: " \o answer.message)
                      ELSE IF answer.names = None
                      THEN info_headers(self, "Element not found.")
                      ELSE info_headers(self, "Item:") \o "\n\n" \o answer.names[1]),
                 Find(self.data_base, self.collection, self.element))

\* The manager the shell holds now.
Self == TerminalDatabase(data_base, collection, element)

\* The shell has not built a query; no call of as_mongo_agregate is open.
CompilerIdle ==
    /\ tree = Root(<<>>)
    /\ registry = NewRegistry
    /\ stack = <<>>
    /\ pc = "none"
    /\ pipeline_str = ""
    /\ result = [kind |-> "None", pipeline |-> <<>>, message |-> ""]
    /\ last = Step("none", Root(<<>>), NewRegistry, NewRegistry)
    /\ visited = <<>>
    /\ other = NoCall

\* terminal_database.rs:63-77: new, and launch with the home menu.
InitShell ==
    /\ CompilerIdle
    /\ RepositoryIdle
    /\ data_base = None
    /\ collection = None
    /\ element = None
    /\ cursor = home(TerminalDatabase(None, None, None),
                     default_header(TerminalDatabase(None, None, None)))
    /\ service = NoService

\* terminal_database.rs:37-57: manage, on the manager of the option, has
\* run the handler h of the option o.
Managed(o, h) ==
    /\ data_base' = h.self.data_base
    /\ collection' = h.self.collection
    /\ element' = h.self.element
    /\ cursor' = h.cursor
    /\ service' = [handler |-> o.option, args |-> o.args, request |-> h.request,
                   before |-> o.manager]
    /\ UNCHANGED <<call, other, repository>>

\* terminal_database.rs:39.
Home(o) ==
    /\ o.option = "HOME"
    /\ Managed(o, Handled(o.manager, home(o.manager, default_header(o.manager)), NoRequest))

\* terminal_database.rs:40.
Status(o) ==
    /\ o.option = "STATUS"
    /\ Managed(o, status(o.manager))

\* terminal_database.rs:42.
ShowDatabases(o) ==
    /\ o.option = "SHOW_DATABASES"
    /\ \E answer \in Answers("db") : Managed(o, show_databases(o.manager, answer))

\* terminal_database.rs:43.
SelectDatabasePanel(o) ==
    /\ o.option = "SELECT_DATABASE_PANEL"
    /\ \E answer \in Answers("db") : Managed(o, select_database_panel(o.manager, answer))

\* terminal_database.rs:44.
SelectDatabase(o) ==
    /\ o.option = "SELECT_DATABASE"
    /\ Managed(o, select_database(o.manager, o))

\* terminal_database.rs:46.
ShowCollections(o) ==
    /\ o.option = "SHOW_COLLECTIONS"
    /\ \E answer \in Answers("col") : Managed(o, show_collections(o.manager, answer))

\* terminal_database.rs:47.
SelectCollectionPanel(o) ==
    /\ o.option = "SELECT_COLLECTION_PANEL"
    /\ \E answer \in Answers("col") : Managed(o, select_collection_panel(o.manager, answer))

\* terminal_database.rs:48.
SelectCollection(o) ==
    /\ o.option = "SELECT_COLLECTION"
    /\ Managed(o, select_collection(o.manager, o))

\* terminal_database.rs:50.
ShowElements(o) ==
    /\ o.option = "SHOW_ELEMENTS"
    /\ \E answer \in Answers("_id=") : Managed(o, show_elements(o.manager, answer))

\* terminal_database.rs:51.
SelectElementPanel(o) ==
    /\ o.option = "SELECT_ELEMENTS_PANEL"
    /\ \E answer \in Answers("_id=") : Managed(o, select_element_panel(o.manager, answer))

\* terminal_database.rs:52.
SelectElement(o) ==
    /\ o.option = "SELECT_ELEMENT"
    /\ Managed(o, select_element(o.manager, o))

\* What find answers: an error, no document, or the document.
Found == { ServiceErr("connection refused"), ServiceOk(None),
           ServiceOk(Some("{ \"_id\": 1 }")) }

\* terminal_database.rs:54.
ShowElement(o) ==
    /\ o.option = "SHOW_ELEMENT"
    /\ \E answer \in Found : Managed(o, show_element(o.manager, answer))

\* The options of the menu on the screen.
Offered == { cursor.options[j] : j \in 1..Len(cursor.options) }

\* The user picks one of the options the menu offers.
NextShell ==
    \/ \E o \in Offered : ShowDatabases(o)
    \/ \E o \in Offered : SelectDatabasePanel(o)
    \/ \E o \in Offered : SelectDatabase(o)
    \/ \E o \in Offered : ShowCollections(o)
    \/ \E o \in Offered : SelectCollectionPanel(o)
    \/ \E o \in Offered : SelectCollection(o)
    \/ \E o \in Offered : ShowElements(o)
    \/ \E o \in Offered : SelectElementPanel(o)
    \/ \E o \in Offered : SelectElement(o)
    \/ \E o \in Offered : ShowElement(o)

SpecShell == InitShell /\ [][NextShell]_vars

\* The options manage accepts, with the arguments a caller may give them.
Accepted ==
    { TerminalOption("", n, <<>>, Self) :
        n \in {"HOME", "STATUS", "SHOW_DATABASES", "SELECT_DATABASE_PANEL",
               "SELECT_DATABASE", "SHOW_COLLECTIONS", "SELECT_COLLECTION_PANEL",
               "SELECT_COLLECTION", "SHOW_ELEMENTS", "SELECT_ELEMENTS_PANEL",
               "SELECT_ELEMENT", "SHOW_ELEMENT"} }
    \cup { TerminalOption(x, "SELECT_DATABASE", << x >>, Self) : x \in DataBaseNames }
    \cup { TerminalOption(x, "SELECT_COLLECTION", << x >>, Self) : x \in CollectionNames }
    \cup { TerminalOption(x, "SELECT_ELEMENT", << x >>, Self) : x \in ElementNames }

\* IManager::manage called with any option it accepts, offered or not.
NextManage ==
    \/ \E o \in Accepted : Home(o)
    \/ \E o \in Accepted : Status(o)
    \/ \E o \in Accepted : ShowDatabases(o)
    \/ \E o \in Accepted : SelectDatabasePanel(o)
    \/ \E o \in Accepted : SelectDatabase(o)
    \/ \E o \in Accepted : ShowCollections(o)
    \/ \E o \in Accepted : SelectCollectionPanel(o)
    \/ \E o \in Accepted : SelectCollection(o)
    \/ \E o \in Accepted : ShowElements(o)
    \/ \E o \in Accepted : SelectElementPanel(o)
    \/ \E o \in Accepted : SelectElement(o)
    \/ \E o \in Accepted : ShowElement(o)

SpecManage == InitShell /\ [][NextManage]_vars

-----------------------------------------------------------------------------
(* as_mongo_agregate as a function of the tree.                            *)

RECURSIVE _as_mongo_agregate(_, _)
\* utils.rs:54-113 with the loop of utils.rs:132-137: the registry after
\* the call on self, from the registry before it.
_as_mongo_agregate(self, reg) ==
    LET RECURSIVE children(_, _)
        children(f, r) ==
            IF f = <<>> THEN r
            ELSE children(Tail(f), _as_mongo_agregate(Head(f), r))
    IN  CASE self.value.category = "ROOT" -> children(self.value.children, reg)
          [] self.value.category = "COLLECTION" ->
                collection_step(self, children(self.value.children, reg))
          [] self.value.category = "QUERY" -> query_step(self, reg)
          [] OTHER -> leaf_step(self, reg)

\* utils.rs:16-52: the text and the outcome of one call on self.
as_mongo_agregate(self) ==
    LET reg == _as_mongo_agregate(self, NewRegistry)
    IN  [pipeline_str |-> render(reg), result |-> from_str(render(reg))]

-----------------------------------------------------------------------------
(* Helpers of the properties.                                              *)

IsPrefix(p, q) == Len(p) <= Len(q) /\ SubSeq(q, 1, Len(p)) = p

\* The keys of a parsed document, in order.
Keys(doc) == [j \in 1..Len(doc.m) |-> doc.m[j].k]

\* A fragment of a bucket read as a JSON value.
Fragment(text) == ParseValue(text, 1)

RECURSIVE HasLeaf(_)
\* Whether a leaf node lies below the node.
HasLeaf(node) ==
    \E j \in 1..Len(node.value.children) :
        \/ node.value.children[j].value.category \in LeafCategories
        \/ HasLeaf(node.value.children[j])

\* The bucket a node's own clause goes to, and the other one.
DestBucket(self, reg) == IF self.is_or THEN reg.or_fields ELSE reg.and_fields
OtherBucket(self, reg) == IF self.is_or THEN reg.and_fields ELSE reg.or_fields

\* A COLLECTION node has just been folded.
Folded == last.op = "collection"

-----------------------------------------------------------------------------
(* The COLLECTION fold.                                                    *)

\* C1: when a COLLECTION is folded with both buckets holding fragments of its
\* children (the registry was empty when the node was entered), both buckets
\* are drained: the destination bucket chosen by the node's is_or holds one
\* grouped clause with the "$and" and the "$or" part, and the other bucket
\* holds nothing.
C1_FoldDrainsBothBuckets ==
    ( /\ Folded
      /\ last.entry.and_fields = <<>> /\ last.entry.or_fields = <<>>
      /\ last.before.and_fields # <<>> /\ last.before.or_fields # <<>> )
    => /\ Len(DestBucket(last.self, registry)) = 1
       /\ Len(OtherBucket(last.self, registry)) = 0
       /\ LET g == Fragment(DestBucket(last.self, registry)[1])
          IN  g.ok /\ g.v.t = "obj" /\ Keys(g.v) = << "$and", "$or" >>

\* C2: after a COLLECTION is folded, the fragments the buckets held when the
\* node was entered are still there, in place, and at most one fragment (the
\* group) was added to the two buckets together.
C2_FoldKeepsSiblingFragments ==
    Folded
    => /\ IsPrefix(last.entry.and_fields, registry.and_fields)
       /\ IsPrefix(last.entry.or_fields, registry.or_fields)
       /\ Len(registry.and_fields) + Len(registry.or_fields)
            <= Len(last.entry.and_fields) + Len(last.entry.or_fields) + 1

\* C3: a COLLECTION with no leaf below it (no children, QUERY children only,
\* empty nested COLLECTIONs only) leaves both buckets as they were when the
\* node was entered, whatever its is_or.
C3_EmptyCollectionPushesNothing ==
    (Folded /\ ~HasLeaf(last.self))
    => /\ registry.and_fields = last.entry.and_fields
       /\ registry.or_fields = last.entry.or_fields

-----------------------------------------------------------------------------
(* QUERY nodes.                                                            *)

RECURSIVE QueryFragments(_)
\* The fragments of the QUERY nodes below a node, in depth-first order.
QueryFragments(node) ==
    LET RECURSIVE Of(_)
        Of(f) ==
            IF Len(f) = 0 THEN <<>>
            ELSE (IF Head(f).value.category = "QUERY"
                  THEN << Head(f).value.value >>
                  ELSE QueryFragments(Head(f))) \o Of(Tail(f))
    IN  Of(node.value.children)

RECURSIVE Inside(_, _)
\* Whether the document d occurs in the value v, at any depth.
Inside(d, v) ==
    \/ v = d
    \/ v.t = "obj" /\ \E j \in 1..Len(v.m) : Inside(d, v.m[j].v)
    \/ v.t = "arr" /\ \E j \in 1..Len(v.a) : Inside(d, v.a[j])

\* Whether the final registry gives a match stage.
HasMatch == registry.and_fields # <<>> \/ registry.or_fields # <<>>

\* C4: a QUERY step appends the node's raw fragment to the stage list and
\* leaves both buckets alone; the stage list is always a prefix of the
\* tree's QUERY fragments in depth-first order; and the returned pipeline is
\* the match stage, if any, followed by exactly those fragments in that
\* order, none of them occurring inside the match stage at any depth.
C4_QueriesAreStagesInOrder ==
    /\ last.op = "query"
        => /\ registry.and_fields = last.before.and_fields
           /\ registry.or_fields = last.before.or_fields
           /\ registry.queries = Append(last.before.queries, last.self.value.value)
    /\ IsPrefix(registry.queries, QueryFragments(tree))
    /\ pc = "done"
        => LET q == QueryFragments(tree)
               m == IF HasMatch THEN 1 ELSE 0
           IN  /\ result.kind = "Ok"
               /\ Len(result.pipeline) = m + Len(q)
               /\ \A j \in 1..Len(q) :
                    /\ result.pipeline[m + j] = Fragment(q[j]).v
                    /\ m = 1 => ~Inside(Fragment(q[j]).v, result.pipeline[1])
               /\ m = 1 => Keys(result.pipeline[1]) = << "$match" >>

\* A tree with a top-level QUERY after a COLLECTION that holds a leaf and a
\* QUERY was compiled: two stages follow the match stage.
C4_Witness ==
    /\ pc = "done"
    /\ HasMatch
    /\ Len(QueryFragments(tree)) >= 2
    /\ \E j \in 1..Len(tree.value.children) :
         /\ tree.value.children[j].value.category = "COLLECTION"
         /\ Len(QueryFragments(tree.value.children[j])) >= 1
         /\ HasLeaf(tree.value.children[j])
         /\ j < Len(tree.value.children)
         /\ tree.value.children[j + 1].value.category = "QUERY"

-----------------------------------------------------------------------------
(* Leaves below the root.                                                  *)

\* The document a leaf's value stands for: text for STRING and ID, a number
\* for NUMERIC, a literal for BOOLEAN.
ValueDoc(node) ==
    CASE node.value.category \in {"STRING", "ID"} -> JStr(node.value.value)
      [] node.value.category = "NUMERIC" -> JNum(node.value.value)
      [] OTHER -> JLit(node.value.value)

Single(k, v) == JObj(<< [k |-> k, v |-> v] >>)

\* The document a leaf's clause stands for.
ClauseDoc(node) ==
    Single(node.field,
           IF node.is_negate
           THEN Single("$not", Single("$eq", ValueDoc(node)))
           ELSE ValueDoc(node))

AllLeaves(node) ==
    \A j \in 1..Len(node.value.children) :
        node.value.children[j].value.category \in LeafCategories

\* The children of a node with the given is_or, in insertion order.
ChildrenWith(node, o) ==
    LET Is(c) == c.is_or = o IN SelectSeq(node.value.children, Is)

\* root[status = STRING "active", age = NUMERIC 30 negated], both conjunctive.
C5_Scenario ==
    Root(<< Leaf("status", "STRING", "active", FALSE, FALSE),
            Leaf("age", "NUMERIC", "30", FALSE, TRUE) >>)

\* C5: once a root whose children are all leaves was walked, each bucket
\* holds one clause per child with that is_or, in the children's order, and
\* nothing else; and the scenario tree compiles to the one match stage
\* { "$match": { "$and": [ { "status": "active" },
\*                         { "age": { "$not": { "$eq": 30 } } } ] } }.
C5_LeafSiblingsInOrder ==
    /\ (pc # "walk" /\ AllLeaves(tree))
        => \A o \in BOOLEAN :
            LET want == ChildrenWith(tree, o)
                got == IF o THEN registry.or_fields ELSE registry.and_fields
            IN  /\ Len(got) = Len(want)
                /\ \A j \in 1..Len(want) :
                     Fragment(got[j]).ok /\ Fragment(got[j]).v = ClauseDoc(want[j])
    /\ (pc = "done" /\ tree = C5_Scenario)
        => /\ pipeline_str = "[ { \"$match\": { \"$and\": [ { \"status\": \"active\" }, { \"age\": { \"$not\": { \"$eq\": 30 } } } ] } } ]"
           /\ result = Ok(<< Single("$match", Single("$and",
                  JArr(<< Single("status", JStr("active")),
                          Single("age", Single("$not", Single("$eq", JNum("30")))) >>))) >>)

\* The scenario tree was compiled.
C5_Witness == pc = "done" /\ tree = C5_Scenario /\ result.kind = "Ok"

-----------------------------------------------------------------------------
(* A COLLECTION of two conjunctive leaves.                                 *)

\* Whether the node is a COLLECTION whose children are two leaves, both
\* with is_or = FALSE.
TwoConjunctiveLeaves(node) ==
    /\ node.value.category = "COLLECTION"
    /\ Len(node.value.children) = 2
    /\ \A j \in 1..2 :
         /\ node.value.children[j].value.category \in LeafCategories
         /\ ~node.value.children[j].is_or

\* The group the two leaves of such a node stand for.
GroupDoc(node) ==
    Single("$and", JArr(<< ClauseDoc(node.value.children[1]),
                           ClauseDoc(node.value.children[2]) >>))

\* C6: folding a COLLECTION of two conjunctive leaves adds exactly one
\* fragment, the group { "$and": [ clause, clause ] } of its two leaves, to
\* the bucket its is_or names (the disjunction bucket when is_or, else the
\* conjunction bucket) and leaves the other bucket as it was when the node
\* was entered; compiled as the only child of the root with is_or, the
\* group is the one element of the "$or" array of the match stage.
C6_GroupOfTwoLeaves ==
    /\ (Folded /\ TwoConjunctiveLeaves(last.self))
        => LET dest == DestBucket(last.self, registry)
           IN  /\ Len(dest) = Len(DestBucket(last.self, last.entry)) + 1
               /\ IsPrefix(DestBucket(last.self, last.entry), dest)
               /\ OtherBucket(last.self, registry) = OtherBucket(last.self, last.entry)
               /\ Fragment(dest[Len(dest)]).ok
               /\ Fragment(dest[Len(dest)]).v = GroupDoc(last.self)
    /\ ( /\ pc = "done"
         /\ Len(tree.value.children) = 1
         /\ TwoConjunctiveLeaves(tree.value.children[1])
         /\ tree.value.children[1].is_or )
        => result = Ok(<< Single("$match", Single("$or",
                            JArr(<< GroupDoc(tree.value.children[1]) >>))) >>)

\* The same statement for a COLLECTION entered with an empty conjunction
\* bucket, where the fold finds the fragments of its own leaves only.
C6_GroupOfTwoLeavesFromEmpty ==
    /\ (Folded /\ TwoConjunctiveLeaves(last.self) /\ last.entry.and_fields = <<>>)
        => LET dest == DestBucket(last.self, registry)
           IN  /\ Len(dest) = Len(DestBucket(last.self, last.entry)) + 1
               /\ IsPrefix(DestBucket(last.self, last.entry), dest)
               /\ OtherBucket(last.self, registry) = OtherBucket(last.self, last.entry)
               /\ Fragment(dest[Len(dest)]).ok
               /\ Fragment(dest[Len(dest)]).v = GroupDoc(last.self)
    /\ ( /\ pc = "done"
         /\ Len(tree.value.children) = 1
         /\ TwoConjunctiveLeaves(tree.value.children[1])
         /\ tree.value.children[1].is_or )
        => result = Ok(<< Single("$match", Single("$or",
                            JArr(<< GroupDoc(tree.value.children[1]) >>))) >>)

-----------------------------------------------------------------------------
(* One leaf step.                                                          *)

\* A leaf node has just been processed.
LeafDone == last.op = "leaf"

\* The clause the last leaf step pushed: the last fragment of its bucket.
NewClause ==
    LET dest == DestBucket(last.self, registry) IN dest[Len(dest)]

\* C7: a leaf step appends exactly one clause, a document with the one key
\* field, to the disjunction bucket when is_or and to the conjunction bucket
\* otherwise; the other bucket and the stage list are unchanged.
C7_LeafRoutedByIsOr ==
    LeafDone
    => /\ Len(DestBucket(last.self, registry))
            = Len(DestBucket(last.self, last.before)) + 1
       /\ IsPrefix(DestBucket(last.self, last.before), DestBucket(last.self, registry))
       /\ OtherBucket(last.self, registry) = OtherBucket(last.self, last.before)
       /\ registry.queries = last.before.queries
       /\ Fragment(NewClause).ok
       /\ Fragment(NewClause).v.t = "obj"
       /\ Keys(Fragment(NewClause).v) = << last.self.field >>
       /\ (last.self.is_or => registry.and_fields = last.before.and_fields)
       /\ (~last.self.is_or => registry.or_fields = last.before.or_fields)

\* A disjunctive leaf was processed while the conjunction bucket held a
\* clause and the stage list a fragment.
C7_Witness ==
    /\ LeafDone
    /\ last.self.is_or
    /\ last.before.and_fields # <<>>
    /\ last.before.queries # <<>>

\* C8: the clause of a leaf is { "field": { "$not": { "$eq": V } } } when
\* is_negate and { "field": V } otherwise, V the rendered value; read as a
\* document, the field's value is the "$not" wrapper exactly when is_negate.
C8_NegationWrapsEquality ==
    LeafDone
    => LET V == FilterValue_as_mongo_agregate(last.self.value)
           f == last.self.field
           d == Fragment(NewClause)
       IN  /\ last.self.is_negate
                => /\ NewClause = "{ \"" \o f \o "\": { \"$not\": { \"$eq\": " \o V \o " } } }"
                   /\ d.ok /\ d.v.m[1].v.t = "obj"
                   /\ Keys(d.v.m[1].v) = << "$not" >>
                   /\ Keys(d.v.m[1].v.m[1].v) = << "$eq" >>
           /\ ~last.self.is_negate
                => /\ NewClause = "{ \"" \o f \o "\": " \o V \o " }"
                   /\ d.ok /\ d.v.m[1].v.t \in {"str", "num", "lit"}

\* A negated leaf was processed after a leaf that is not negated.
C8_Witness ==
    /\ LeafDone
    /\ last.self.is_negate
    /\ Len(tree.value.children) = 2
    /\ tree.value.children[2] = last.self
    /\ tree.value.children[1].value.category \in LeafCategories
    /\ ~tree.value.children[1].is_negate

\* The value inside a leaf's clause document, below the negation if any.
InnerValue(node, d) ==
    IF node.is_negate THEN d.m[1].v.m[1].v.m[1].v ELSE d.m[1].v

\* C9: in the clause of a leaf, the value is the raw text between double
\* quotes (a JSON string of that text) when the category is STRING or ID,
\* and the raw text as it is (a JSON number or literal) when it is BOOLEAN
\* or NUMERIC.
C9_QuotedByCategory ==
    LeafDone
    => LET raw == last.self.value.value
           cat == last.self.value.category
           head == "{ \"" \o last.self.field \o "\": "
                    \o (IF last.self.is_negate THEN "{ \"$not\": { \"$eq\": " ELSE "")
           d == Fragment(NewClause)
       IN  /\ d.ok
           /\ cat \in {"STRING", "ID"}
                => /\ Holds(NewClause, Len(head) + 1, "\"" \o raw \o "\" }")
                   /\ InnerValue(last.self, d.v) = JStr(raw)
           /\ cat \in {"BOOLEAN", "NUMERIC"}
                => /\ Holds(NewClause, Len(head) + 1, raw \o " }")
                   /\ InnerValue(last.self, d.v) \in {JNum(raw), JLit(raw)}

\* An ID leaf was processed after a NUMERIC leaf: a quoted and a bare value.
C9_Witness ==
    /\ LeafDone
    /\ last.self.value.category = "ID"
    /\ Len(tree.value.children) = 2
    /\ tree.value.children[2] = last.self
    /\ tree.value.children[1].value.category = "NUMERIC"

-----------------------------------------------------------------------------
(* The empty tree.                                                         *)

\* C10: once a root with no children was walked the three collections of
\* the registry are empty, and the serializer renders "[  ]" and returns
\* success with an empty pipeline, so with no match stage.
C10_EmptyTreeEmptyPipeline ==
    (tree = Root(<<>>) /\ pc # "walk")
    => /\ registry.and_fields = <<>>
       /\ registry.or_fields = <<>>
       /\ registry.queries = <<>>
       /\ pc = "done"
            => /\ pipeline_str = "[  ]"
               /\ result.kind = "Ok"
               /\ result.pipeline = <<>>
               /\ result.message = ""

\* The root with no children was compiled.
C10_Witness == tree = Root(<<>>) /\ pc = "done" /\ result.kind # "None"

-----------------------------------------------------------------------------
(* The match stage.                                                        *)

\* The stages of a parsed pipeline that carry a "$match" key.
MatchStages(p) ==
    { j \in 1..Len(p) : \E k \in 1..Len(p[j].m) : p[j].m[k].k = "$match" }

\* The array of a bucket as it is read back: its fragments, in order.
BucketArr(bucket) == JArr([j \in 1..Len(bucket) |-> Fragment(bucket[j]).v])

\* The members a match document holds for the two buckets of a registry.
MatchMembers(reg) ==
    (IF reg.and_fields # <<>>
     THEN << [k |-> "$and", v |-> BucketArr(reg.and_fields)] >> ELSE <<>>)
    \o (IF reg.or_fields # <<>>
        THEN << [k |-> "$or", v |-> BucketArr(reg.or_fields)] >> ELSE <<>>)

\* C11: the returned pipeline holds exactly one match stage when the and
\* bucket or the or bucket of the final registry is non-empty and none
\* otherwise; the match stage is the first stage, and its single "$match"
\* document holds the "$and" array of the and bucket, if that is non-empty,
\* followed by the "$or" array of the or bucket, if that is non-empty.
C11_OneMatchStageFirst ==
    pc = "done"
    => /\ result.kind = "Ok"
       /\ MatchStages(result.pipeline) = IF HasMatch THEN {1} ELSE {}
       /\ HasMatch
            => result.pipeline[1]
                  = JObj(<< [k |-> "$match", v |-> JObj(MatchMembers(registry))] >>)

\* A tree whose final registry fills both buckets and the stage list was
\* compiled.
C11_Witness ==
    /\ pc = "done"
    /\ registry.and_fields # <<>>
    /\ registry.or_fields # <<>>
    /\ registry.queries # <<>>
    /\ Len(result.pipeline) >= 2

-----------------------------------------------------------------------------
(* Text that cannot be parsed.                                             *)

RECURSIVE Below(_)
\* The nodes below a node, at any depth.
Below(node) ==
    UNION { {node.value.children[j]} \cup Below(node.value.children[j]) :
              j \in 1..Len(node.value.children) }

\* as_mongo_agregate has returned.
Compiled == pc \notin {"walk", "assemble"}

\* C12: as_mongo_agregate returns either an error or a pipeline, never
\* both and never neither. When the pipeline text cannot be parsed (a QUERY
\* fragment or a STRING value with an unescaped quote lies in the tree) it
\* returns an error that carries the parser's message and no pipeline, not
\* even the stages read before the fault; when the text parses it returns
\* the parsed pipeline and no error.
C12_ErrorOrPipeline ==
    Compiled
    => LET read == Fragment(pipeline_str) IN
       /\ result.kind \in {"Ok", "Err"}
       /\ result.kind = "Err" <=> Below(tree) \cap Malformed # {}
       /\ ~read.ok => result.kind = "Err" /\ result.message = read.v.s
       /\ result.kind = "Err" => result.pipeline = <<>> /\ result.message # ""
       /\ result.kind = "Ok"
            => /\ result.message = ""
               /\ read.ok
               /\ read.v = JArr(result.pipeline)

\* A tree with a well-formed leaf followed by a malformed node was compiled:
\* the text before the fault is a readable stage, and the call failed.
C12_Witness ==
    /\ pc = "done"
    /\ Len(tree.value.children) = 2
    /\ tree.value.children[1] \in SmallLeaves
    /\ tree.value.children[2] \in Malformed
    /\ ~Fragment(pipeline_str).ok
    /\ result.kind = "Err"

-----------------------------------------------------------------------------
(* The query layer.                                                        *)

\* C13: when the compilation of the filter of a repository operation
\* (find_query_lite, find_query, find, update, delete) fails, the operation
\* returns the compiler's error as it is, the aggregate call is never
\* issued, the cursor loop is never entered, and no document is read,
\* replaced or deleted. When the compilation succeeds the first driver call
\* is the aggregate of the compiled pipeline.
C13_CompileErrorPropagates ==
    /\ (operation # NoOperation /\ result.kind = "Err")
        => /\ datastore = <<>>
           /\ elements = <<>>
           /\ pc # "cursor"
           /\ pc = "returned" => returned = Failed(result.message)
           /\ pc # "returned" => returned = NotReturned
    /\ (pc \in {"cursor", "returned"} /\ result.kind = "Ok")
        => datastore # <<>> /\ datastore[1] = Aggregate(result.pipeline)

\* A delete whose filter holds a malformed node has returned.
C13_Witness ==
    /\ operation.name = "delete"
    /\ pc = "returned"
    /\ result.kind = "Err"
    /\ returned.kind = "Err"
    /\ Below(tree) \cap Malformed # {}

-----------------------------------------------------------------------------
(* Calls do not touch each other.                                          *)

\* Both calls have returned.
BothDone == other # NoCall /\ pc = "done" /\ other.pc = "done"

\* C14: two calls of as_mongo_agregate on the same tree, each starting
\* from its own fresh registry, return the same pipeline text and the same
\* outcome (the same parsed pipeline or the same error), whether the second
\* call is made during the first or after it.
C14_SameTreeSameResult ==
    (BothDone /\ other.tree = tree)
    => /\ pipeline_str = other.pipeline_str
       /\ result = other.result

\* The same tree, with a leaf and so a non-empty registry, was compiled
\* twice.
C14_Witness ==
    /\ BothDone
    /\ other.tree = tree
    /\ registry.and_fields # <<>>
    /\ result.kind = "Ok"

\* C15: every call begins with the three collections of its registry
\* empty; the tree a call works on and returns for is the tree it was
\* given, unchanged; and whatever other call ran before it or takes steps
\* between its own, a call gives the text and the outcome that
\* as_mongo_agregate gives for its tree alone.
C15_FreshRegistryTreeUntouched ==
    LET Alone(c) ==
            /\ c.last.op = "call" => c.registry = QueryItems(<<>>, <<>>, <<>>)
            /\ c.stack # <<>> => c.stack[1].self = c.tree
            /\ c.pc \in {"assemble", "done"}
                 => c.visited # <<>> /\ c.visited[Len(c.visited)] = c.tree
            /\ c.pc = "done"
                 => /\ c.pipeline_str = as_mongo_agregate(c.tree).pipeline_str
                    /\ c.result = as_mongo_agregate(c.tree).result
    IN  /\ Alone(Locals)
        /\ other # NoCall => Alone(other)

\* A call on a tree was made while another call, on a different tree, had
\* fragments in its registry, and both have returned.
C15_Witness ==
    /\ BothDone
    /\ other.tree # tree
    /\ other.registry # NewRegistry
    /\ registry # NewRegistry
    /\ registry # other.registry

-----------------------------------------------------------------------------
(* The walk ends.                                                          *)

RECURSIVE PostOrder(_)
\* The nodes of a tree in depth-first order of insertion, the children of
\* a node before the node.
PostOrder(node) ==
    LET RECURSIVE Of(_)
        Of(f) == IF f = <<>> THEN <<>> ELSE PostOrder(Head(f)) \o Of(Tail(f))
    IN  Of(node.value.children) \o << node >>

\* C16: for every well-formed tree the walk ends, serialization is
\* reached, and it returns a pipeline, not an error, whatever the categories
\* and the is_or and is_negate flags of the nodes; at every moment the
\* nodes whose own step was taken are the first ones of the tree in
\* depth-first insertion order, children before their COLLECTION or ROOT,
\* and when the walk has ended they are all the nodes, each once.
C16_WalkTerminates ==
    /\ [](IsPrefix(visited, PostOrder(tree)))
    /\ [](pc \in {"assemble", "done"} => visited = PostOrder(tree))
    /\ [](pc = "done" => result.kind = "Ok")
    /\ <>(pc \in {"assemble", "done"})

\* A tree of two levels of COLLECTION with leaves of both flags was walked
\* to the end.
C16_Witness ==
    /\ pc = "done"
    /\ Len(visited) >= 5
    /\ \E j \in 1..Len(visited) :
         /\ visited[j].value.category = "COLLECTION"
         /\ \E k \in 1..Len(visited[j].value.children) :
              visited[j].value.children[k].value.category = "COLLECTION"
    /\ \E j \in 1..Len(visited) :
         visited[j].value.category \in LeafCategories
            /\ visited[j].is_or /\ visited[j].is_negate

-----------------------------------------------------------------------------
(* The menu shell.                                                         *)

\* An element is selected only under a collection, a collection only under
\* a data base.
Nested(self) ==
    /\ self.element # None => self.collection # None
    /\ self.collection # None => self.data_base # None

\* The handler run last, and whether it was given a name.
Ran(handler) == service.handler = handler
Named == service.args # <<>>

\* C17: starting from TerminalDatabase::new and following only options the
\* returned menus offer, the shell never has an element selected without a
\* collection, nor a collection without a data base; the same holds of the
\* manager carried by every option on the menu.
C17_SelectionNested ==
    /\ Nested(Self)
    /\ \A o \in Offered : Nested(o.manager)

\* With data base, collection and element selected, the [None] option of
\* the data base panel was taken.
C17_Witness ==
    /\ Ran("SELECT_DATABASE")
    /\ ~Named
    /\ service.before.element # None
    /\ service.before.collection # None
    /\ data_base = None

\* C18: SELECT_DATABASE without an argument clears data base, collection
\* and element; SELECT_COLLECTION without an argument clears collection and
\* element and keeps the data base; SELECT_ELEMENT without an argument
\* clears the element and keeps data base and collection.
C18_DeselectionCascadesDown ==
    /\ (Ran("SELECT_DATABASE") /\ ~Named)
        => Self = TerminalDatabase(None, None, None)
    /\ (Ran("SELECT_COLLECTION") /\ ~Named)
        => Self = TerminalDatabase(service.before.data_base, None, None)
    /\ (Ran("SELECT_ELEMENT") /\ ~Named)
        => Self = TerminalDatabase(service.before.data_base,
                                   service.before.collection, None)

\* With data base, collection and element selected, the [None] option of
\* the collection panel was taken.
C18_Witness ==
    /\ Ran("SELECT_COLLECTION")
    /\ ~Named
    /\ service.before.data_base # None
    /\ service.before.collection # None
    /\ service.before.element # None
    /\ data_base = service.before.data_base
    /\ element = None

\* C19: SELECT_DATABASE with a name selects that data base and keeps the
\* collection and the element as they were; SELECT_COLLECTION with a name
\* selects that collection and keeps the data base and the element as they
\* were. A collection or element selected under the former data base (or
\* collection) so stays selected under the new one.
C19_SelectionKeepsLowerLevels ==
    /\ (Ran("SELECT_DATABASE") /\ Named)
        => Self = TerminalDatabase(Some(service.args[1]),
                                   service.before.collection, service.before.element)
    /\ (Ran("SELECT_COLLECTION") /\ Named)
        => Self = TerminalDatabase(service.before.data_base,
                                   Some(service.args[1]), service.before.element)

\* With a collection and an element selected under one data base, another
\* data base was selected.
C19_Witness ==
    /\ Ran("SELECT_DATABASE")
    /\ Named
    /\ service.before.data_base # None
    /\ service.before.data_base # data_base
    /\ collection # None
    /\ element # None

\* The levels a handler needs, the most specific first, and the message
\* for each.
Needs(handler) ==
    CASE handler = "SHOW_ELEMENT" -> << "element", "collection", "data_base" >>
      [] handler \in {"SHOW_ELEMENTS", "SELECT_ELEMENTS_PANEL"} -> << "collection", "data_base" >>
      [] handler \in {"SHOW_COLLECTIONS", "SELECT_COLLECTION_PANEL"} -> << "data_base" >>
      [] OTHER -> <<>>

Level(self, level) ==
    CASE level = "element" -> self.element
      [] level = "collection" -> self.collection
      [] OTHER -> self.data_base

Message(level) ==
    CASE level = "element" -> "No element selected:"
      [] level = "collection" -> "No collection selected:"
      [] OTHER -> "No data base selected:"

\* The levels a handler needs and the manager lacks, in the handler's order.
Missing(self, handler) ==
    SelectSeq(Needs(handler), LAMBDA level : Level(self, level) = None)

\* C20: a handler that needs a level the manager has not selected makes no
\* call on the service, leaves the selection as it was and returns the home
\* menu under the message of the first level missing in its order of
\* checks: element, collection, data base for SHOW_ELEMENT; collection,
\* data base for SHOW_ELEMENTS and SELECT_ELEMENTS_PANEL; data base for
\* SHOW_COLLECTIONS and SELECT_COLLECTION_PANEL. A call for collections,
\* elements or one element is made only with every level of its query
\* selected, and the query holds the selected names.
C20_MissingSelectionNoCall ==
    LET before == service.before
        missing == Missing(before, service.handler)
    IN  /\ missing # <<>>
            => /\ service.request = NoRequest
               /\ Self = before
               /\ cursor = home(before, info_headers(before, Message(missing[1])))
        /\ service.request.call = "list_collections"
            => before.data_base # None /\ service.request.query = << before.data_base >>
        /\ service.request.call = "find_all_lite"
            => /\ before.data_base # None /\ before.collection # None
               /\ service.request.query = << before.data_base, before.collection >>
        /\ service.request.call = "find"
            => /\ before.data_base # None /\ before.collection # None
               /\ before.element # None
               /\ service.request.query
                     = << before.data_base, before.collection, before.element >>
        /\ (Needs(service.handler) # <<>> /\ missing = <<>>)
            => service.request # NoRequest

\* SHOW_ELEMENTS was asked for with a collection selected and no data base:
\* the second check failed.
C20_Witness ==
    /\ Ran("SHOW_ELEMENTS")
    /\ service.before.collection # None
    /\ service.before.data_base = None
    /\ service.request = NoRequest
    /\ cursor.header = info_headers(Self, "No data base selected:")

-----------------------------------------------------------------------------
(* Values the walk does not read.                                          *)

\* C21: is_negate on a COLLECTION, QUERY or ROOT node, is_or on a QUERY or
\* ROOT node and field on any of the three do not change the compiled
\* output: two trees that differ only in those values compile to the same
\* pipeline text (and so to the same outcome), and each to the text of the
\* tree with those values removed.
C21_UnreadValuesNoEffect ==
    /\ (BothDone /\ Erased(tree) = Erased(other.tree))
         => /\ pipeline_str = other.pipeline_str
            /\ result = other.result
    /\ pc = "done"
         => pipeline_str = as_mongo_agregate(Erased(tree)).pipeline_str

\* Two trees were compiled that differ in is_negate of a QUERY, and whose
\* text holds the fragment of that QUERY.
C21_Witness ==
    /\ BothDone
    /\ other.tree # tree
    /\ Erased(tree) = Erased(other.tree)
    /\ \E i \in 1..Len(tree.value.children) :
          /\ tree.value.children[i].value.category = "QUERY"
          /\ tree.value.children[i].is_negate
          /\ ~other.tree.value.children[i].is_negate
    /\ registry.queries # <<>>
    /\ result.kind = "Ok"


====
